---- MODULE Spec2Model ----
(***************************************************************************)
(* The Pacman reinforcement-learning environments of                       *)
(* mdrc_pacbot_rl/pacman/gym.py: BasePacmanGym and its four variants       *)
(* (NaivePacmanGym, SemanticChannelPacmanGym, SemanticPacmanGym,           *)
(* SelfAttentionPacmanGym) on top of the pacbot_rs GameState simulation.   *)
(*                                                                         *)
(* A position is a pair <<x, y>>: p[1] is Python's pos[0], p[2] is pos[1]. *)
(* A reward is kept exact: Ratio(n, d) is the float n / d, LogRatio(a, b)  *)
(* is math.log(a) / math.log(b).                                           *)
(***************************************************************************)
EXTENDS Integers, Sequences, FiniteSets, TLC

VARIABLES
    variant,        \* the class of the environment object
    random_start,   \* self.random_start, the constructor's argument
    maze,           \* which cell array game_state.grid holds
    pacbot,         \* game_state.pacbot.pos
    game_state,     \* score, play, lives and the ghosts' pos["current"]
    last_score,     \* self.last_score
    last_ghost_pos, \* self.last_ghost_pos (SemanticChannel, Semantic)
    last_action,    \* self.last_action (SemanticChannel)
    last_pos,       \* self.last_pos (SemanticChannel)
    ret             \* what the last call returned or raised

vars == <<variant, random_start, maze, pacbot, game_state, last_score, last_ghost_pos,
          last_action, last_pos, ret>>

(***************************************************************************)
(* Program constants.                                                      *)
(***************************************************************************)
GRID_WIDTH == 28
GRID_HEIGHT == 31

\* The cell types a move is refused on: `in (1, 5)`.
Wall == 1
Door == 5
\* The other cell types the environments read: pellet (grid == 2).
Pellet == 2

\* mdrc_pacbot_rl.pacman.variables
ghost_score == 200
pellet_score == 10
starting_lives == 3

(***************************************************************************)
(* Bounds of the model.                                                    *)
(***************************************************************************)
\* How many patterned cell arrays the movement specification starts from.
NumMazes == 2
\* The arena's corridor has RoomLen + 1 open cells.
RoomLen == 1
\* The simulation's score is one of 0, pellet_score .. MaxPellets * pellet_score,
\* ghost_score.
MaxPellets == 1
\* The constructor's ticks_per_step argument.
ticks_per_step == 1
\* How many cells the valid-cell list holds.
NumValidCells == 5

Xs == 0 .. GRID_WIDTH - 1
Ys == 0 .. GRID_HEIGHT - 1
Cells == Xs \X Ys
CellTypes == 0 .. 6
Actions == 0 .. 4
\* Action codes beyond the action space, one below it and one above it.
OutOfRange == {-1, 5}

Min(a, b) == IF a < b THEN a ELSE b
Max(a, b) == IF a > b THEN a ELSE b
InGrid(p) == p[1] \in Xs /\ p[2] \in Ys

(***************************************************************************)
(* The cell arrays.  Array 0 is the arena the episodes are played in: wall *)
(* everywhere but a corridor of pellets that starts at PacStart and the    *)
(* cells of the valid-cell list.  Arrays 1 .. NumMazes are patterned so    *)
(* that through the 28 x 31 positions every cell type is met in every      *)
(* direction, at the edges and inside.                                     *)
(***************************************************************************)
PacStart == <<5, 5>>
Corridor == {<<PacStart[1] + i, PacStart[2]>> : i \in 0 .. RoomLen}
MazeIds == 0 .. NumMazes

\* VALID_CELLS, the list loaded from computed_data/node_coords.json: cells
\* six apart along a row, a second row five below it.  Between two of them
\* the squared distance is 0, 25, 36, 61, 144, 169 or more.
ValidCell(i) == <<1 + 6 * (i % 5), 1 + 5 * (i \div 5)>>
VALID_CELLS == {ValidCell(i) : i \in 0 .. NumValidCells - 1}

MazeCell(k, x, y) ==
    IF k = 0
    THEN IF <<x, y>> \in Corridor \cup VALID_CELLS THEN Pellet ELSE Wall
    ELSE (3 * x + y + k) % 7

Mazes == [k \in MazeIds |-> [x \in Xs |-> [y \in Ys |-> MazeCell(k, x, y)]]]

\* game_state.grid
grid == Mazes[maze]

(***************************************************************************)
(* Python's list indexing, as grid[x][y] does it: a negative index counts  *)
(* from the end, an index past the end raises IndexError.                  *)
(***************************************************************************)
PyIndexOk(i, len) == i >= -len /\ i < len
PyIndex(i, len) == IF i < 0 THEN i + len ELSE i
CellOk(p) == PyIndexOk(p[1], GRID_WIDTH) /\ PyIndexOk(p[2], GRID_HEIGHT)
CellAt(g, p) == g[PyIndex(p[1], GRID_WIDTH)][PyIndex(p[2], GRID_HEIGHT)]

(***************************************************************************)
(* BasePacmanGym.move_one_cell                                             *)
(***************************************************************************)
\* new_pos: the neighbour in the action's direction, clamped to the grid.
NewPosUnclamped(old_pos, action) ==
    CASE action = 0 -> <<old_pos[1], old_pos[2]>>
      [] action = 1 -> <<old_pos[1], Min(old_pos[2] + 1, GRID_HEIGHT - 1)>>
      [] action = 2 -> <<old_pos[1], old_pos[2] - 1>>
      [] action = 3 -> <<old_pos[1] - 1, old_pos[2]>>
      [] action = 4 -> <<Min(old_pos[1] + 1, GRID_WIDTH - 1), old_pos[2]>>

NewPos(old_pos, action) ==
    CASE action = 0 -> <<old_pos[1], old_pos[2]>>
      [] action = 1 -> <<old_pos[1], Min(old_pos[2] + 1, GRID_HEIGHT - 1)>>
      [] action = 2 -> <<old_pos[1], Max(old_pos[2] - 1, 0)>>
      [] action = 3 -> <<Max(old_pos[1] - 1, 0), old_pos[2]>>
      [] action = 4 -> <<Min(old_pos[1] + 1, GRID_WIDTH - 1), old_pos[2]>>

\* `if self.game_state.grid[new_pos[0]][new_pos[1]] not in (1, 5)`
RefusedDoorOpen(g, new_pos) == CellAt(g, new_pos) \in {Wall}

Refused(g, new_pos) == CellAt(g, new_pos) \in {Wall, Door}

\* new_pos is assigned by the five `if action == k:` and by nothing else, so
\* it is a bound local only for these codes.
NewPosBound(action) == action \in {0, 1, 2, 3, 4}

\* The outcome of move_one_cell: the position Pacman is left on and the
\* exception raised, if any.  Reading new_pos while it is unbound raises
\* UnboundLocalError.
MoveOutcomeDefaultStay(g, old_pos, action) ==
    LET new_pos == IF NewPosBound(action) THEN NewPos(old_pos, action) ELSE old_pos
    IN  IF ~CellOk(new_pos)
        THEN [pos |-> old_pos, error |-> "IndexError"]
        ELSE IF Refused(g, new_pos)
             THEN [pos |-> old_pos, error |-> "none"]
             ELSE [pos |-> new_pos, error |-> "none"]

MoveOutcome(g, old_pos, action) ==
    IF ~NewPosBound(action)
    THEN [pos |-> old_pos, error |-> "UnboundLocalError"] ELSE
    LET new_pos == NewPos(old_pos, action) IN
    IF ~CellOk(new_pos)
    THEN [pos |-> old_pos, error |-> "IndexError"]
    ELSE IF Refused(g, new_pos)
         THEN [pos |-> old_pos, error |-> "none"]
         ELSE [pos |-> new_pos, error |-> "none"]

(***************************************************************************)
(* BasePacmanGym.action_mask                                               *)
(***************************************************************************)
BlockedCellWallOnly(g, p) == CellAt(g, p) \in {Wall}

BlockedCell(g, p) == CellAt(g, p) \in {Wall, Door}

ActionMaskNoDoor(g, pos) ==
    [d \in Actions |->
        CASE d = 0 -> 0
          [] d = 1 -> IF pos[2] = GRID_HEIGHT - 1
                         \/ CellAt(g, <<pos[1], pos[2] + 1>>) = Wall
                      THEN 1 ELSE 0
          [] d = 2 -> IF pos[2] = 0 \/ CellAt(g, <<pos[1], pos[2] - 1>>) = Wall
                      THEN 1 ELSE 0
          [] d = 3 -> IF pos[1] = 0 \/ CellAt(g, <<pos[1] - 1, pos[2]>>) = Wall
                      THEN 1 ELSE 0
          [] d = 4 -> IF pos[1] = GRID_WIDTH - 1
                         \/ CellAt(g, <<pos[1] + 1, pos[2]>>) = Wall
                      THEN 1 ELSE 0]

ActionMaskOf(g, pos) ==
    [d \in Actions |->
        CASE d = 0 -> 0
          [] d = 1 -> IF pos[2] = GRID_HEIGHT - 1
                         \/ BlockedCell(g, <<pos[1], pos[2] + 1>>)
                      THEN 1 ELSE 0
          [] d = 2 -> IF pos[2] = 0 \/ BlockedCell(g, <<pos[1], pos[2] - 1>>)
                      THEN 1 ELSE 0
          [] d = 3 -> IF pos[1] = 0 \/ BlockedCell(g, <<pos[1] - 1, pos[2]>>)
                      THEN 1 ELSE 0
          [] d = 4 -> IF pos[1] = GRID_WIDTH - 1
                         \/ BlockedCell(g, <<pos[1] + 1, pos[2]>>)
                      THEN 1 ELSE 0]

(***************************************************************************)
(* Rewards, exact.                                                         *)
(***************************************************************************)
Ratio(n, d) == [kind |-> "ratio", num |-> n, den |-> d]
LogRatio(a, b) == [kind |-> "logratio", num |-> a, den |-> b]
Zero == Ratio(0, 1)
\* r - p for two ratios
RatioMinus(r, p) == Ratio(r.num * p.den - p.num * r.den, r.den * p.den)
RatEq(r, p) == r.kind = "ratio" /\ p.kind = "ratio" /\ r.num * p.den = p.num * r.den
\* A float that is neither an infinity nor a NaN.
IsFinite(r) ==
    \/ r.kind = "ratio" /\ r.den # 0
    \/ r.kind = "logratio" /\ r.num > 0 /\ r.den > 0 /\ r.den # 1
\* `reward == float("Nan")`: Python's == is False whenever an operand is a NaN,
\* and False between a number and a NaN.
EqualsNan(r) == FALSE

(***************************************************************************)
(* The pacbot_rs simulation, as far as the environments read it: the       *)
(* score, the play flag, the lives left and the four ghosts' current       *)
(* positions (red, pink, orange, blue), and the positions pos["next"] the  *)
(* ghosts move to, which reset() writes.  Its rules are not part of gym.py.*)
(***************************************************************************)
GhostNames == <<"red", "pink", "orange", "blue">>
GhostIds == DOMAIN GhostNames
Home == [i \in GhostIds |-> <<11 + i, 15>>]
Displaced(i) == [Home EXCEPT ![i] = <<Home[i][1], Home[i][2] - 1>>]
\* The ghost the simulation moves within the model: the last one, blue.
MovingGhosts == {Len(GhostNames)}
GhostConfigs == {Home} \cup {Displaced(i) : i \in MovingGhosts}

\* pos["next"] as the simulation plans it: the moving ghost goes back and
\* forth between its two cells.
PlannedNext(ghosts) == IF ghosts = Home THEN Displaced(Len(GhostNames)) ELSE Home

ScoreRange == {i * pellet_score : i \in 0 .. MaxPellets} \cup {ghost_score}

SimStates ==
    {[score |-> sc, play |-> pl, lives |-> lv, ghosts |-> gh,
      next |-> PlannedNext(gh)] :
        sc \in ScoreRange, pl \in BOOLEAN, lv \in 0 .. starting_lives,
        gh \in GhostConfigs}

\* GameState() and restart(): a paused simulation at its start.
Restarted ==
    [score |-> 0, play |-> FALSE, lives |-> starting_lives, ghosts |-> Home,
     next |-> PlannedNext(Home)]

\* unpause()
Unpause(s) == [s EXCEPT !.play = TRUE]

\* next_step(): a paused simulation stays as it is; a playing one moves to
\* any score and any ghost positions, loses at most one life and may stop
\* playing, which it does when no life is left.
NextStep(s) ==
    IF ~s.play
    THEN {s}
    ELSE {t \in SimStates :
            /\ t.lives \in {s.lives, s.lives - 1}
            /\ (t.lives = 0 => ~t.play)}

(***************************************************************************)
(* The tick loops of step().  A loop state is the simulation, the number   *)
(* of next_step() calls made and whether the loop has hit its `break`.     *)
(***************************************************************************)
LoopIter(R, breaks) ==
    UNION {IF r.broke
           THEN {r}
           ELSE {[gs |-> t, ticks |-> r.ticks + 1, broke |-> breaks /\ ~t.play] :
                    t \in NextStep(r.gs)} : r \in R}

RECURSIVE Loop(_, _, _)
Loop(R, n, breaks) ==
    IF n = 0 THEN R ELSE Loop(LoopIter(R, breaks), n - 1, breaks)

LoopStart(s) == {[gs |-> s, ticks |-> 0, broke |-> FALSE]}

\* `for _ in range(self.ticks_per_step): self.game_state.next_step()`
RunTicks(s) == Loop(LoopStart(s), ticks_per_step, FALSE)

\* `for _ in range(self.ticks_per_step * tick_mult): ...; if not play: break`
RunTicksBreaking(s, tick_mult) ==
    Loop(LoopStart(s), ticks_per_step * tick_mult, TRUE)

(***************************************************************************)
(* What a call returns or raises.                                          *)
(***************************************************************************)
NoMask == <<>>

\* What the call before this one was: "init", "reset", a step that returned
\* done ("done"), a step that returned not done ("step"), or one that raised.
After(r) ==
    IF r.op # "step" THEN r.op
    ELSE IF r.error # "none" THEN "raised"
    ELSE IF r.done THEN "done" ELSE "step"

Returned(op, action, reward, done, ticks, mask) ==
    [op |-> op, action |-> action, reward |-> reward, done |-> done,
     error |-> "none", ticks |-> ticks, mask |-> mask, after |-> After(ret)]

Raised(op, action, error, ticks) ==
    [op |-> op, action |-> action, reward |-> Zero, done |-> FALSE,
     error |-> error, ticks |-> ticks, mask |-> NoMask, after |-> After(ret)]

\* move_one_cell and action_mask, called on their own.
Moved(action, old_pos, error) ==
    [op |-> "move_one_cell", action |-> action, old_pos |-> old_pos,
     error |-> error, after |-> After(ret)]

Masked(mask) == [op |-> "action_mask", mask |-> mask, error |-> "none"]

Variants == {"Naive", "SemanticChannel", "Semantic", "SelfAttention"}
\* The variants whose reset() and step() return an action mask.
MaskedVariants == {"Naive", "SemanticChannel", "SelfAttention"}
\* The variants that keep last_ghost_pos.
GhostTrackers == {"SemanticChannel", "Semantic"}

(***************************************************************************)
(* __init__: a fresh, paused simulation on the arena.                      *)
(***************************************************************************)
Init ==
    /\ variant \in Variants
    /\ random_start = FALSE
    /\ maze = 0
    /\ pacbot = PacStart
    /\ game_state = Restarted
    /\ last_score = 0
    /\ last_ghost_pos = Restarted.ghosts
    /\ last_action = 0
    /\ last_pos = PacStart
    /\ ret = [op |-> "init", error |-> "none"]

(***************************************************************************)
(* reset(): BasePacmanGym.reset and what each variant adds to it.          *)
(***************************************************************************)
\* `self.last_score = 0`
ResetLastScoreKept(old) == old

ResetLastScore(old) == 0

\* get_pos_with_dist: the cells its rejection loop can return, those whose
\* squared distance from pac_pos is neither under min_dist ** 2 nor over
\* max_dist ** 2.  With no such cell in the list the loop never ends.
DistSqr(pos, pac_pos) ==
    (pos[1] - pac_pos[1]) * (pos[1] - pac_pos[1])
    + (pos[2] - pac_pos[2]) * (pos[2] - pac_pos[2])

GetPosWithDistAnyCell(pac_pos, min_dist, max_dist) == VALID_CELLS

GetPosWithDist(pac_pos, min_dist, max_dist) ==
    {pos \in VALID_CELLS :
        ~(\/ DistSqr(pos, pac_pos) < min_dist * min_dist
          \/ DistSqr(pos, pac_pos) > max_dist * max_dist)}

\* What BasePacmanGym.reset leaves before unpause(): the restarted simulation
\* and Pacman's start, or with random_start Pacman on a cell of the list and
\* each ghost on a get_pos_with_dist(pac_pos, 6, 12) cell, its pos["next"]
\* set to its pos["current"].
Placements(random) ==
    IF random
    THEN UNION {{[pacbot |-> pac_pos,
                  gs |-> [Restarted EXCEPT !.ghosts = placed, !.next = placed]] :
                    placed \in [GhostIds -> GetPosWithDist(pac_pos, 6, 12)]} :
                pac_pos \in VALID_CELLS}
    ELSE {[pacbot |-> PacStart, gs |-> Restarted]}

Reset ==
    \E start \in Placements(random_start) :
    /\ last_score' = ResetLastScore(last_score)
    /\ game_state' = Unpause(start.gs)
    /\ pacbot' = start.pacbot
    /\ last_ghost_pos' =
          IF variant \in GhostTrackers THEN game_state'.ghosts ELSE last_ghost_pos
    /\ last_action' = IF variant = "SemanticChannel" THEN 0 ELSE last_action
    /\ last_pos' = IF variant = "SemanticChannel" THEN pacbot' ELSE last_pos
    /\ ret' = Returned("reset", 0, Zero, FALSE, 0,
                       IF variant \in MaskedVariants
                       THEN ActionMaskOf(grid, pacbot') ELSE NoMask)
    /\ UNCHANGED <<variant, random_start, maze>>

\* score(): `return self.game_state.score`
Score == game_state.score

(***************************************************************************)
(* The ghost bookkeeping of SemanticChannelPacmanGym.step and               *)
(* SemanticPacmanGym.step.                                                 *)
(***************************************************************************)
\* `any(old != new for old, new in zip(entity_positions, new_entity_positions))`
PosChangedFirstOnly(entity_positions, new_entity_positions) ==
    entity_positions[1] # new_entity_positions[1]

PosChanged(entity_positions, new_entity_positions) ==
    \E i \in GhostIds : entity_positions[i] # new_entity_positions[i]

NextLastGhostPos(old_last, entity_positions, new_entity_positions) ==
    IF PosChanged(entity_positions, new_entity_positions)
    THEN entity_positions
    ELSE old_last

\* create_obs: the last-changed occupancy channels, one per ghost.
LastGhostChannels ==
    [i \in GhostIds |-> [c \in {last_ghost_pos[i]} |-> 1]]

(***************************************************************************)
(* The rewards of the four step() methods.                                 *)
(***************************************************************************)
\* NaivePacmanGym.step
NaiveRewardNoZeroing(score_now, score_before, done) ==
    Ratio(score_now - score_before, ghost_score)

NaiveReward(score_now, score_before, done) ==
    LET r1 == Ratio(score_now - score_before, ghost_score)
        r2 == IF done THEN Zero ELSE r1
    IN  IF EqualsNan(r2) THEN Zero ELSE r2

\* SemanticChannelPacmanGym.step
TickMultOnAnyChange(prev_action, action) ==
    IF prev_action = action THEN 1 ELSE 2

TickMult(prev_action, action) ==
    IF prev_action = action \/ prev_action = 0 THEN 1 ELSE 2

Penalty == Ratio(1, 20)

SemanticChannelRewardNoZeroing(score_now, score_before, tick_mult, done, lives) ==
    LET r1 == Ratio(score_now - score_before, ghost_score)
    IN  IF tick_mult = 2 THEN RatioMinus(r1, Penalty) ELSE r1

SemanticChannelReward(score_now, score_before, tick_mult, done, lives) ==
    LET r1 == Ratio(score_now - score_before, ghost_score)
        r2 == IF tick_mult = 2 THEN RatioMinus(r1, Penalty) ELSE r1
    IN  IF done /\ lives < 3 THEN Zero ELSE r2

\* SemanticPacmanGym.step
SemanticReward(score_now, score_before, done) ==
    LET r1 == IF done THEN -100 ELSE score_now - score_before
        r2 == IF EqualsNan(Ratio(r1, 1)) THEN 0 ELSE r1
    IN  Ratio(r2, 200)

\* SelfAttentionPacmanGym.step: math.log raises ValueError on an argument
\* that is not positive.
LogRaises(score_now, score_before) == 1 + score_now - score_before <= 0

SelfAttentionReward(score_now, score_before, lives) ==
    LET r1 == LogRatio(1 + score_now - score_before, ghost_score)
        r2 == IF lives < starting_lives THEN Ratio(-1, 1) ELSE r1
    IN  IF EqualsNan(r2) THEN Zero ELSE r2

(***************************************************************************)
(* step(), one action per variant.  Each is the whole method: the move,    *)
(* the ticks, the bookkeeping, the reward and the returned tuple.          *)
(***************************************************************************)
\* `done = not self.game_state.play`
DoneWhilePlaying(s) == s.play

Done(s) == ~s.play

StepRaisedInMove(action, m) ==
    /\ ret' = Raised("step", action, m.error, 0)
    /\ UNCHANGED <<variant, random_start, maze, pacbot, game_state, last_score,
                   last_ghost_pos, last_action, last_pos>>

\* NaivePacmanGym.step
StepNaive(action) ==
    /\ variant = "Naive"
    /\ LET m == MoveOutcome(grid, pacbot, action) IN
       IF m.error # "none" THEN StepRaisedInMove(action, m) ELSE
       \E r \in RunTicks(game_state) :
          LET done == Done(r.gs)
              reward == NaiveReward(r.gs.score, last_score, done)
          IN  /\ pacbot' = m.pos
              /\ game_state' = r.gs
              /\ last_score' = r.gs.score
              /\ ret' = Returned("step", action, reward, done, r.ticks,
                                 ActionMaskOf(grid, m.pos))
              /\ UNCHANGED <<variant, random_start, maze, last_ghost_pos, last_action, last_pos>>

\* SemanticChannelPacmanGym.step
StepSemanticChannel(action) ==
    /\ variant = "SemanticChannel"
    /\ LET m == MoveOutcome(grid, pacbot, action) IN
       IF m.error # "none"
       THEN /\ ret' = Raised("step", action, m.error, 0)
            /\ last_pos' = pacbot
            /\ UNCHANGED <<variant, random_start, maze, pacbot, game_state, last_score,
                           last_ghost_pos, last_action>>
       ELSE
       LET entity_positions == game_state.ghosts
           tick_mult == TickMult(last_action, action)
       IN  \E r \in RunTicksBreaking(game_state, tick_mult) :
          LET done == Done(r.gs)
              reward == SemanticChannelReward(r.gs.score, last_score, tick_mult,
                                              done, r.gs.lives)
          IN  /\ last_pos' = pacbot
              /\ pacbot' = m.pos
              /\ game_state' = r.gs
              /\ last_action' = action
              /\ last_ghost_pos' =
                    NextLastGhostPos(last_ghost_pos, entity_positions, r.gs.ghosts)
              /\ last_score' = r.gs.score
              /\ ret' = Returned("step", action, reward, done, r.ticks,
                                 ActionMaskOf(grid, m.pos))
              /\ UNCHANGED <<variant, random_start, maze>>

\* SemanticPacmanGym.step
StepSemantic(action) ==
    /\ variant = "Semantic"
    /\ LET m == MoveOutcome(grid, pacbot, action) IN
       IF m.error # "none" THEN StepRaisedInMove(action, m) ELSE
       LET entity_positions == game_state.ghosts IN
       \E r \in RunTicks(game_state) :
          LET done == Done(r.gs)
              reward == SemanticReward(r.gs.score, last_score, done)
          IN  /\ pacbot' = m.pos
              /\ game_state' = r.gs
              /\ last_ghost_pos' =
                    NextLastGhostPos(last_ghost_pos, entity_positions, r.gs.ghosts)
              /\ last_score' = r.gs.score
              /\ ret' = Returned("step", action, reward, done, r.ticks, NoMask)
              /\ UNCHANGED <<variant, random_start, maze, last_action, last_pos>>

\* SelfAttentionPacmanGym.step
StepSelfAttention(action) ==
    /\ variant = "SelfAttention"
    /\ LET m == MoveOutcome(grid, pacbot, action) IN
       IF m.error # "none" THEN StepRaisedInMove(action, m) ELSE
       \E r \in RunTicks(game_state) :
          LET done == Done(r.gs) IN
          /\ pacbot' = m.pos
          /\ game_state' = r.gs
          /\ IF LogRaises(r.gs.score, last_score)
             THEN /\ ret' = Raised("step", action, "ValueError", r.ticks)
                  /\ UNCHANGED last_score
             ELSE /\ ret' = Returned("step", action,
                                     SelfAttentionReward(r.gs.score, last_score,
                                                         r.gs.lives),
                                     done, r.ticks, ActionMaskOf(grid, m.pos))
                  /\ last_score' = r.gs.score
          /\ UNCHANGED <<variant, random_start, maze, last_ghost_pos, last_action, last_pos>>

Next ==
    \/ Reset
    \/ \E action \in Actions : StepNaive(action)
    \/ \E action \in Actions : StepSemanticChannel(action)
    \/ \E action \in Actions : StepSemantic(action)
    \/ \E action \in Actions : StepSelfAttention(action)

Spec == Init /\ [][Next]_vars

(***************************************************************************)
(* The movement specification: move_one_cell and action_mask called on a   *)
(* running environment, from every open cell of every patterned array.     *)
(***************************************************************************)
InitMove ==
    /\ variant = "Naive"
    /\ random_start = FALSE
    /\ maze \in 1 .. NumMazes
    /\ pacbot \in {p \in Cells : ~Refused(Mazes[maze], p)}
    /\ game_state = Unpause(Restarted)
    /\ last_score = 0
    /\ last_ghost_pos = Restarted.ghosts
    /\ last_action = 0
    /\ last_pos = PacStart
    /\ ret = [op |-> "reset", error |-> "none"]

MoveOneCell(action) ==
    LET m == MoveOutcome(grid, pacbot, action) IN
    /\ pacbot' = m.pos
    /\ ret' = Moved(action, pacbot, m.error)
    /\ UNCHANGED <<variant, random_start, maze, game_state, last_score, last_ghost_pos,
                   last_action, last_pos>>

ActionMask ==
    /\ ret' = Masked(ActionMaskOf(grid, pacbot))
    /\ UNCHANGED <<variant, random_start, maze, pacbot, game_state, last_score, last_ghost_pos,
                   last_action, last_pos>>

NextMove ==
    \/ \E action \in Actions : MoveOneCell(action)
    \/ ActionMask

SpecMove == InitMove /\ [][NextMove]_vars

\* The same calls with Pacman put on any cell of a patterned array, open or
\* not, as game_state.pacbot.update does with the cell it is given.
InitEveryCell ==
    /\ variant = "Naive"
    /\ random_start = FALSE
    /\ maze \in 1 .. NumMazes
    /\ pacbot \in Cells
    /\ game_state = Unpause(Restarted)
    /\ last_score = 0
    /\ last_ghost_pos = Restarted.ghosts
    /\ last_action = 0
    /\ last_pos = PacStart
    /\ ret = [op |-> "reset", error |-> "none"]

SpecEveryCell == InitEveryCell /\ [][NextMove]_vars

(***************************************************************************)
(* Randomized starts: an environment of each variant constructed with      *)
(* random_start = True, and its reset().                                   *)
(***************************************************************************)
InitRandomStart ==
    /\ variant \in Variants
    /\ random_start = TRUE
    /\ maze = 0
    /\ pacbot = PacStart
    /\ game_state = Restarted
    /\ last_score = 0
    /\ last_ghost_pos = Restarted.ghosts
    /\ last_action = 0
    /\ last_pos = PacStart
    /\ ret = [op |-> "init", error |-> "none"]

NextRandomStart == Reset

SpecRandomStart == InitRandomStart /\ [][NextRandomStart]_vars

(***************************************************************************)
(* Action codes beyond the action space: move_one_cell and the four step() *)
(* methods called with the codes outside 0 .. 4, in a running episode of   *)
(* each variant, on every open cell of every patterned array.              *)
(***************************************************************************)
InitAnyAction ==
    /\ variant \in Variants
    /\ random_start = FALSE
    /\ maze \in 1 .. NumMazes
    /\ pacbot \in {p \in Cells : ~Refused(Mazes[maze], p)}
    /\ game_state = Unpause(Restarted)
    /\ last_score = 0
    /\ last_ghost_pos = Restarted.ghosts
    /\ last_action = 0
    /\ last_pos = pacbot
    /\ ret = [op |-> "reset", error |-> "none"]

NextAnyAction ==
    \/ \E action \in OutOfRange : MoveOneCell(action)
    \/ \E action \in OutOfRange : StepNaive(action)
    \/ \E action \in OutOfRange : StepSemanticChannel(action)
    \/ \E action \in OutOfRange : StepSemantic(action)
    \/ \E action \in OutOfRange : StepSelfAttention(action)

SpecAnyAction == InitAnyAction /\ [][NextAnyAction]_vars

(***************************************************************************)
(* The claims.  The directions are stated on their own here, not through   *)
(* NewPos: 1 is down (+y), 2 is up (-y), 3 is left (-x), 4 is right (+x).  *)
(***************************************************************************)
Dir(d) ==
    CASE d = 0 -> <<0, 0>>
      [] d = 1 -> <<0, 1>>
      [] d = 2 -> <<0, -1>>
      [] d = 3 -> <<-1, 0>>
      [] d = 4 -> <<1, 0>>
Adjacent(p, d) == <<p[1] + Dir(d)[1], p[2] + Dir(d)[2]>>
Clamped(p) ==
    <<Max(0, Min(p[1], GRID_WIDTH - 1)), Max(0, Min(p[2], GRID_HEIGHT - 1))>>
Destination(p, d) == Clamped(Adjacent(p, d))
IsWallOrDoor(p) == grid[p[1]][p[2]] = 1 \/ grid[p[1]][p[2]] = 5

\* C1: whatever moves move_one_cell has made, with actions 0 .. 4 from a
\* position inside the 28 x 31 grid, Pacman's position is inside the grid:
\* 0 <= x <= 27 and 0 <= y <= 30.
C1_PositionStaysInGrid ==
    /\ pacbot[1] >= 0 /\ pacbot[1] <= 27
    /\ pacbot[2] >= 0 /\ pacbot[2] <= 30

\* C1's case: a move towards a grid edge from a cell on that edge returned.
C1_Witness ==
    /\ ret.op = "move_one_cell"
    /\ ret.error = "none"
    /\ \/ ret.action = 2 /\ ret.old_pos[2] = 0
       \/ ret.action = 3 /\ ret.old_pos[1] = 0
    /\ pacbot = ret.old_pos

\* C2: move_one_cell(action) raises nothing; it leaves Pacman where it was
\* when the destination cell (the neighbour in the action's direction,
\* clamped to the grid) is a wall (1) or a ghost-house door (5), and puts
\* Pacman on exactly the destination cell otherwise.
C2_MoveRefusedOrTaken ==
    ret.op = "move_one_cell" =>
        /\ ret.error = "none"
        /\ LET dest == Destination(ret.old_pos, ret.action) IN
           pacbot = IF IsWallOrDoor(dest) THEN ret.old_pos ELSE dest

\* C2's case, the scenario of the specification: Pacman at (5,5), a wall at
\* (5,6), action 1 (down) has left Pacman at (5,5).
C2_Witness ==
    /\ ret.op = "move_one_cell"
    /\ ret.action = 1
    /\ ret.old_pos = <<5, 5>>
    /\ grid[5][6] = 1
    /\ pacbot = <<5, 5>>
    /\ ret.error = "none"

\* C3: action_mask() returns a 5-element list whose entry 0 is 0 and whose
\* entry d, for d in 1 .. 4, is 1 exactly when the cell adjacent to Pacman
\* in direction d is off the grid or is a wall (1) or a door (5), and is 0
\* otherwise.
C3_MaskMarksBlockedDirections ==
    ret.op = "action_mask" =>
        /\ DOMAIN ret.mask = 0 .. 4
        /\ ret.mask[0] = 0
        /\ \A d \in 1 .. 4 :
              LET adj == Adjacent(pacbot, d) IN
              ret.mask[d] = IF ~InGrid(adj) \/ IsWallOrDoor(adj) THEN 1 ELSE 0

\* C3's case: a mask taken on the left edge, with a door next to Pacman in
\* one direction and an open cell in another.
C3_Witness ==
    /\ ret.op = "action_mask"
    /\ pacbot[1] = 0
    /\ ret.mask[3] = 1
    /\ \E d \in 1 .. 4 :
          /\ InGrid(Adjacent(pacbot, d))
          /\ CellAt(grid, Adjacent(pacbot, d)) = 5
          /\ ret.mask[d] = 1
    /\ \E d \in 1 .. 4 : ret.mask[d] = 0

\* C4: in each of the four variants every step() returns, and the reward it
\* returns is a finite number, whatever the difference between the
\* simulation's score after the step and the last-seen score: zero,
\* negative, or on a terminal step.
C4_RewardAlwaysFinite ==
    ret.op = "step" => ret.error = "none" /\ IsFinite(ret.reward)

\* C5: once reset() has returned, last_score is 0 and score() is 0; and a
\* step(0) right after it, in which the simulation's score stays as it was
\* and the simulation keeps playing, returns done = False.
C5_ResetClearsScore ==
    /\ ret.op = "reset" => last_score = 0 /\ Score = 0
    /\ (/\ ret.op = "step"
        /\ ret.after = "reset"
        /\ ret.action = 0
        /\ game_state.score = 0
        /\ game_state.play)
       => ret.error = "none" /\ ret.done = FALSE

\* C5's case: reset() called on a terminated episode has returned.
C5_Witness ==
    /\ ret.op = "reset"
    /\ ret.after = "done"
    /\ last_score = 0
    /\ Score = 0
    /\ game_state.play

\* C6: a step() that returns reports done = True exactly when the simulation
\* is not playing after the step's ticks; only reset() takes the simulation
\* from not playing to playing; and the step() after one that reported
\* done = True reports done = True as well, so that only reset() leaves the
\* terminated state.
C6_Lifecycle ==
    [][/\ (ret'.op = "step" /\ ret'.error = "none")
             => (ret'.done <=> ~game_state'.play)
       /\ (~game_state.play /\ game_state'.play) => ret'.op = "reset"
       /\ (ret.op = "step" /\ ret.done /\ ret'.op = "step")
             => (ret'.error = "none" /\ ret'.done)]_vars

\* C6's case: a step() taken in the terminated state has reported done.
C6_Witness ==
    /\ ret.op = "step"
    /\ ret.after = "done"
    /\ ret.done
    /\ ~game_state.play

\* C7: in SemanticChannelPacmanGym a step() in which no ghost's current
\* position differs between before and after the ticks leaves last_ghost_pos
\* as it was, and a step() in which some ghost's position differs sets it to
\* the four positions the ghosts had before the ticks.
C7_LastGhostPosFollowsChanges ==
    [][(variant = "SemanticChannel" /\ ret'.op = "step" /\ ret'.error = "none")
          => last_ghost_pos' =
                IF \A i \in 1 .. 4 : game_state'.ghosts[i] = game_state.ghosts[i]
                THEN last_ghost_pos
                ELSE game_state.ghosts]_vars

\* C7's case: a step in which a ghost moved back home has stored the
\* positions from before its ticks, and the last-changed channels show them.
C7_Witness ==
    /\ variant = "SemanticChannel"
    /\ ret.op = "step"
    /\ game_state.ghosts = Home
    /\ last_ghost_pos # Home
    /\ \E i \in GhostIds : DOMAIN LastGhostChannels[i] # {Home[i]}

\* C8: in NaivePacmanGym a step() after which the simulation is playing
\* returns (score after the step - last_score before it) / ghost_score, which
\* is 1.0 when the score rose by exactly ghost_score; a step() after which
\* the simulation is not playing returns 0.
C8_NaiveReward ==
    [][(variant = "Naive" /\ ret'.op = "step")
          => /\ ret'.error = "none"
             /\ IF game_state'.play
                THEN /\ RatEq(ret'.reward,
                              Ratio(game_state'.score - last_score, ghost_score))
                     /\ (game_state'.score - last_score = ghost_score
                            => RatEq(ret'.reward, Ratio(1, 1)))
                ELSE RatEq(ret'.reward, Ratio(0, 1))]_vars

\* C8's case: a step right after reset() in which the score rose from 0 to
\* ghost_score, the simulation still playing, has returned 1.0.
C8_Witness ==
    /\ variant = "Naive"
    /\ ret.op = "step"
    /\ ret.after = "reset"
    /\ game_state.play
    /\ game_state.score = ghost_score
    /\ RatEq(ret.reward, Ratio(1, 1))

\* C9: in SemanticChannelPacmanGym a step() that ends the episode (the
\* simulation is not playing) with fewer lives left than the starting count
\* returns a reward of exactly 0.
C9_TerminalRewardZero ==
    (/\ variant = "SemanticChannel"
     /\ ret.op = "step"
     /\ ret.error = "none"
     /\ ~game_state.play
     /\ game_state.lives < starting_lives)
    => RatEq(ret.reward, Ratio(0, 1))

\* C9's case: a doubled step, whose penalty alone would make the reward
\* non-zero, has ended the episode with a life lost and returned 0.
C9_Witness ==
    /\ variant = "SemanticChannel"
    /\ ret.op = "step"
    /\ ret.done
    /\ ret.ticks = 2 * ticks_per_step
    /\ game_state.lives < starting_lives
    /\ ret.reward = Zero

\* C10: in SelfAttentionPacmanGym a step() that returns gives -1.0 if a life
\* was lost during that step, and log(1 + score delta) / log(ghost_score)
\* otherwise, also when a life was lost in an earlier step of the episode.
C10_MinusOneOnlyOnLifeLost ==
    [][(variant = "SelfAttention" /\ ret'.op = "step" /\ ret'.error = "none")
          => ret'.reward =
                IF game_state'.lives < game_state.lives
                THEN Ratio(-1, 1)
                ELSE LogRatio(1 + game_state'.score - last_score, ghost_score)]_vars

\* C11, as claimed: for an action code outside {0, 1, 2, 3, 4},
\* move_one_cell, and a step() that calls it, leaves Pacman's position as it
\* was and completes without raising an error.
C11_OutOfRangeActionCompletes ==
    [][(ret'.op \in {"move_one_cell", "step"} /\ ret'.action \notin {0, 1, 2, 3, 4})
          => pacbot' = pacbot /\ ret'.error = "none"]_vars

\* C11, amended: for an action code outside {0, 1, 2, 3, 4}, move_one_cell,
\* and a step() that calls it, leaves Pacman's position as it was and raises
\* UnboundLocalError; step() runs no tick and changes neither the score seen
\* last nor the simulation.
C11_OutOfRangeActionRaises ==
    [][(ret'.op \in {"move_one_cell", "step"} /\ ret'.action \notin {0, 1, 2, 3, 4})
          => /\ pacbot' = pacbot
             /\ ret'.error = "UnboundLocalError"
             /\ game_state' = game_state
             /\ last_score' = last_score]_vars

\* C11's case: a step() with action code 5 in a running episode, Pacman
\* having an open cell next to it and having moved before, has raised.
C11_Witness ==
    /\ ret.op = "step"
    /\ ret.action = 5
    /\ ret.error = "UnboundLocalError"
    /\ ret.after = "move_one_cell"
    /\ game_state.play
    /\ \E d \in 1 .. 4 :
          /\ InGrid(Adjacent(pacbot, d))
          /\ ~IsWallOrDoor(Adjacent(pacbot, d))

\* What a returning SemanticChannelPacmanGym step must show when its tick
\* count is doubled (doubled = TRUE) or not: the next_step() calls made, all
\* of them while the simulation keeps playing and at least one and no more
\* otherwise; and the reward, the raw score ratio less 0.05 on a doubled step,
\* the episode-end zeroing of C9 set apart.
C12_StepShows(doubled) ==
    LET n == IF doubled THEN 2 * ticks_per_step ELSE ticks_per_step
        raw == Ratio(game_state'.score - last_score, ghost_score)
    IN  /\ game_state'.play => ret'.ticks = n
        /\ ~game_state'.play => ret'.ticks \in 1 .. n
        /\ IF ~game_state'.play /\ game_state'.lives < starting_lives
           THEN RatEq(ret'.reward, Ratio(0, 1))
           ELSE RatEq(ret'.reward,
                      IF doubled THEN RatioMinus(raw, Ratio(5, 100)) ELSE raw)

\* C12, as claimed: a SemanticChannelPacmanGym step of a running episode is
\* doubled (2 * ticks_per_step ticks unless the simulation stops playing,
\* 0.05 off the reward) exactly when its action differs from the action of
\* the step before it, the first step after reset() never being doubled.
C12_DoubledOnActionChange ==
    [][(/\ variant = "SemanticChannel"
        /\ game_state.play
        /\ ret'.op = "step"
        /\ ret'.error = "none")
          => C12_StepShows(ret.op = "step" /\ ret'.action # ret.action)]_vars

\* C12, amended: a SemanticChannelPacmanGym step is doubled exactly when the
\* step before it had a directional action (1 .. 4) and this step's action
\* differs from it; a step after reset() or after a step with action 0 is
\* never doubled, whatever its action.
C12_DoubledOnLeavingDirection ==
    [][(variant = "SemanticChannel" /\ ret'.op = "step" /\ ret'.error = "none")
          => C12_StepShows(/\ ret.op = "step"
                           /\ ret.action \in 1 .. 4
                           /\ ret'.action # ret.action)]_vars

\* C12's case: a step with action 0 taken after a step, the simulation still
\* playing, has run twice ticks_per_step ticks and returned the 0.05 penalty
\* on an unchanged score.
C12_Witness ==
    /\ variant = "SemanticChannel"
    /\ ret.op = "step"
    /\ ret.after = "step"
    /\ ret.action = 0
    /\ game_state.play
    /\ ret.ticks = 2 * ticks_per_step
    /\ RatEq(ret.reward, Ratio(-1, 20))

\* C13: in an environment constructed with random_start = True, once reset()
\* has returned Pacman is on a cell of the valid-cell list, and each of the
\* four ghosts is on a cell of the list whose squared Euclidean distance from
\* Pacman's cell is at least 6^2 = 36 and at most 12^2 = 144, with its next
\* position equal to its current position.
C13_RandomStartPlacement ==
    (random_start /\ ret.op = "reset") =>
        /\ pacbot \in VALID_CELLS
        /\ \A i \in 1 .. 4 :
              LET g == game_state.ghosts[i]
                  dx == g[1] - pacbot[1]
                  dy == g[2] - pacbot[2]
              IN  /\ g \in VALID_CELLS
                  /\ dx * dx + dy * dy >= 36
                  /\ dx * dx + dy * dy <= 144
                  /\ game_state.next[i] = g

\* C13's case: a reset() with random_start has returned, the simulation
\* playing, with one ghost at squared distance exactly 36 from Pacman and
\* another at exactly 144, while the list holds a cell nearer than 6 and a
\* cell farther than 12 that the placement had to reject.
C13_Witness ==
    /\ random_start
    /\ ret.op = "reset"
    /\ ret.after = "reset"
    /\ game_state.play
    /\ \E i \in GhostIds : DistSqr(game_state.ghosts[i], pacbot) = 36
    /\ \E i \in GhostIds : DistSqr(game_state.ghosts[i], pacbot) = 144
    /\ \E c \in VALID_CELLS : DistSqr(c, pacbot) < 36
    /\ \E c \in VALID_CELLS : DistSqr(c, pacbot) > 144

\* C14: action_mask() and move_one_cell() agree.  Whatever the position and
\* the cells around it, a move_one_cell(d) called right after action_mask()
\* raises nothing and, for d in 1 .. 4, leaves Pacman's position as it was
\* exactly when the mask's entry d is 1, at the grid's edges as well; entry 0
\* is 0 and move_one_cell(0) leaves the position as it was.
C14_MaskAgreesWithMove ==
    [][(ret.op = "action_mask" /\ ret'.op = "move_one_cell")
          => /\ ret'.error = "none"
             /\ \A d \in 1 .. 4 :
                   ret'.action = d => (ret.mask[d] = 1 <=> pacbot' = pacbot)
             /\ ret.mask[0] = 0
             /\ ret'.action = 0 => pacbot' = pacbot]_vars

\* C14's case: right after an action_mask() taken on the grid's right edge,
\* next to a blocked cell above or below, a move_one_cell towards the edge
\* has been clamped and has left Pacman where it was.
C14_Witness ==
    /\ ret.op = "move_one_cell"
    /\ ret.after = "action_mask"
    /\ ret.action = 4
    /\ ret.old_pos[1] = GRID_WIDTH - 1
    /\ pacbot = ret.old_pos
    /\ \E d \in {1, 2} :
          /\ InGrid(Adjacent(pacbot, d))
          /\ IsWallOrDoor(Adjacent(pacbot, d))
    /\ \E d \in {1, 2} :
          /\ InGrid(Adjacent(pacbot, d))
          /\ ~IsWallOrDoor(Adjacent(pacbot, d))

====
